---- MODULE Spec2Model ----
(***************************************************************************)
(* Model of the concurrent crawl engine of FSSCoding/webscraper:           *)
(* WebCrawler (src/src/scraper.py) with its collaborators ContentParser    *)
(* (src/src/parser.py), SemanticAnalyzer (src/src/semantic.py) and         *)
(* StorageManager (src/src/storage.py).                                    *)
(*                                                                         *)
(* One dispatch thread runs start_crawling / _crawl_without_progress; the  *)
(* ThreadPoolExecutor runs _process_source tasks on max_workers threads.   *)
(* add_to_crawl_queue takes no lock, so its membership test and its insert *)
(* are separate steps of the calling thread.                               *)
(* Scores and thresholds are in tenths (0.5 is 5).                         *)
(***************************************************************************)
EXTENDS Integers, Sequences, FiniteSets, TLC

\* ------------------------------------------------------------------ bounds
\* largest max_workers the model constructs a crawler with
MaxWorkers == 2
\* largest non-negative crawl depth the model starts a run with
MaxDepth == 2
\* number of scrape calls on one output folder
MaxRuns == 2

\* ------------------------------------------------------- program constants
\* WebCrawler.__init__ default_depth
DefaultDepth == 1
\* WebCrawler.__init__ topic_relevance_threshold (0.5)
TopicThreshold == 5
\* _extract_and_queue_links: link_relevance_threshold > 0.8 is advanced mode
AdvancedCut == 8
\* batch_size = min(self.max_workers * 2, qsize)
BatchFactor == 2

\* Python's None for an optional score; a score v is << v >>
None == << >>
Some(v) == << v >>
Val(opt) == opt[1]

\* ------------------------------------------------------------ the sources
WebSources == {"hA", "hB", "hC", "hD", "hE", "hF", "hG"}
FileSources == {"doc.txt", "./doc.txt", "/cwd/doc.txt"}
\* a source that is not a string: source.startswith raises
InvalidSources == {"INVALID"}
RawSources == WebSources \cup FileSources \cup InvalidSources

\* source.startswith(("http://", "https://"))
IsWebSource(s) == s \in WebSources

\* utils.normalize_url called without base_url returns the url unchanged
normalize_url(url) == url

\* os.path.abspath: the current directory is /cwd
abspath(p) ==
  CASE p = "doc.txt" -> "/cwd/doc.txt"
    [] p = "./doc.txt" -> "/cwd/doc.txt"
    [] OTHER -> p

\* a normalization that accepts every source
NormalizeRaises_Never(s) == FALSE

\* the try body of add_to_crawl_queue raises for this source
NormalizeRaises(s) == s \in InvalidSources

Normalize(s) == IF IsWebSource(s) THEN normalize_url(s) ELSE abspath(s)

Sources == {Normalize(s) : s \in RawSources \ InvalidSources}

\* --------------------------------------------------------------- the web
\* hrefs of the <a> tags of a page, as written in the markup
FragmentOf(h) == IF h = "hB#s" THEN "hB" ELSE h
SkippedHref(h) == h \in {"#top", "mailto:x"}

\* ContentParser.extract_links: skip #, mailto:, javascript:, tel: hrefs,
\* resolve against the base, drop the fragment
RECURSIVE extract_links(_)
extract_links(tags) ==
  IF tags = << >> THEN << >>
  ELSE IF SkippedHref(Head(tags).href) THEN extract_links(Tail(tags))
  ELSE << [url |-> FragmentOf(Head(tags).href), anchor |-> Head(tags).anchor] >>
         \o extract_links(Tail(tags))

T(h, a) == [href |-> h, anchor |-> a]

\* A links to B and B links to A
GraphCycle ==
  [s \in WebSources |->
     CASE s = "hA" -> << T("hB", TRUE) >>
       [] s = "hB" -> << T("hA", TRUE), T("#top", TRUE) >>
       [] OTHER -> << >>]

\* A and B both link to the shared source D
GraphShared ==
  [s \in WebSources |->
     CASE s = "hA" -> << T("hC", TRUE), T("hD", FALSE) >>
       [] s = "hB" -> << T("hD", TRUE) >>
       [] OTHER -> << >>]

\* A links to B (twice, once with a fragment) and to C, which both link to D
GraphDiamond ==
  [s \in WebSources |->
     CASE s = "hA" -> << T("hB", TRUE), T("hB#s", FALSE), T("hC", TRUE) >>
       [] s = "hB" -> << T("hD", TRUE), T("mailto:x", TRUE) >>
       [] s = "hC" -> << T("hD", TRUE) >>
       [] s = "hD" -> << T("hA", FALSE) >>
       [] OTHER -> << >>]

Graphs == {GraphCycle, GraphShared, GraphDiamond}

\* A links to E, D and E both link to F, F links to G
GraphRace ==
  [s \in WebSources |->
     CASE s = "hA" -> << T("hE", TRUE) >>
       [] s = "hD" -> << T("hF", TRUE) >>
       [] s = "hE" -> << T("hF", TRUE) >>
       [] s = "hF" -> << T("hG", TRUE) >>
       [] OTHER -> << >>]

InitialLists ==
  { << "hA" >>, << "hA", "hB" >>, << "hA", "hA" >>,
    << "INVALID", "doc.txt", "./doc.txt" >> }

\* more initial sources than one round of two workers takes
WideLists == { << "hA", "hB", "hC", "doc.txt", "hD" >> }


\* topic scores the analyzer may return (tenths): below, at and above 0.5
ScoreVals == {3, 5, 9}
\* link scores the analyzer may return (tenths)
LinkScoreVals == {3, 9}
\* link_relevance_threshold: the default 0.6, exactly 0.8, and 0.9
LinkThresholds == {6, AdvancedCut, 9}
\* SemanticAnalyzer: absent, present with is_available() false, or available
Analyzers == {"absent", "unavailable", "available"}
FetchOutcomes == {"ok", "empty", "error"}
\* crawl_depth argument of start_crawling
CrawlDepths == {-2, -1} \cup (0..MaxDepth)

\* ------------------------------------------------------------- the state
VARIABLES
  max_workers, default_depth, user_topic, semantic_analyzer,
  user_topic_embedding, link_relevance_threshold,  \* WebCrawler configuration
  pages,                                           \* the web: the <a> tags of each page
  crawl_queue, visited_sources,                    \* WebCrawler runtime state
  processed_sources_cache,                         \* StorageManager ledger
  pc, batch_left, futures,                         \* dispatch thread and its batch
  files, session_name,                             \* the output folder, the session number
  h_enq, h_deq, h_fetch, h_store,                  \* per-source call counts
  h_raise,                                         \* per source: exceptions before the save
  h_items, h_proc, h_stored,                       \* items enqueued / processed, records stored
  brave_available, tavily_available,               \* SearchEngine configuration
  active_requests,                                 \* SearchEngine._active_requests
  calls, h_calls,                                  \* _search_with_fallback frames, calls begun
  cache_dir, cache_ttl, cache_max_files,           \* AgentSearchInterface configuration
  cache_files, now,                                \* the cache directory, the clock
  h_written, h_got,                                \* last write per key (until it is removed
                                                   \* as expired), the lookup just made
  queries, batch, response,                        \* batch_search: argument, frame, return value
  embedding_cache,                                 \* SemanticAnalyzer.embedding_cache (keys in order)
  embeds, h_embeds,                                \* get_embedding frames, calls begun
  stats_file, stats_lock,                          \* search_stats.json, the holder of its flock
  loggers,                                         \* log_search / get_stats frames
  h_ops, h_gets, h_initial, h_returned, h_io       \* calls begun, get_stats calls begun, the
                                                   \* file at the start, counts returned by
                                                   \* log_search, OSErrors raised

config == << max_workers, user_topic, semantic_analyzer, user_topic_embedding,
             link_relevance_threshold, pages >>
frontier == << crawl_queue, visited_sources >>
history == << h_enq, h_deq, h_fetch, h_store, h_raise, h_items, h_proc, h_stored >>
disk == << files, session_name >>
crawler == << config, default_depth, frontier, processed_sources_cache, disk,
              pc, batch_left, futures, history >>
engine == << brave_available, tavily_available >>
searches == << engine, active_requests, calls, h_calls >>
cache == << cache_dir, cache_ttl, cache_max_files, cache_files, now, h_written, h_got >>
batches == << queries, batch, response >>
analysis == << embedding_cache, embeds, h_embeds >>
stats == << stats_file, stats_lock, loggers, h_ops, h_gets, h_initial, h_returned, h_io >>
others == << analysis, stats >>
agent == << searches, cache, batches, others >>
vars == << crawler, agent >>

\* the larger of the two
Min_Larger(a, b) == IF a < b THEN b ELSE a

Min(a, b) == IF a < b THEN a ELSE b

\* max_workers arguments given to the constructor
WorkerArgs == (-1)..MaxWorkers

\* a constructor that rejects only negative max_workers
ConstructorRaises_Negative(workers) == workers < 0

\* WebCrawler.__init__ lines 308-309: raise ValueError
ConstructorRaises(workers) == workers <= 0

\* an analyzer that always reports itself available
is_available_Always == TRUE

\* SemanticAnalyzer.is_available()
is_available == semantic_analyzer = "available"

\* WebCrawler.__init__: the topic embedding is requested only when a topic is
\* set and the analyzer is available; get_embedding may return None
InitEmbedding(topic, analyzer) ==
  IF topic /\ analyzer = "available" THEN BOOLEAN ELSE {FALSE}

ZeroCount == [s \in Sources |-> 0]

\* ------------------------------------------------------- StorageManager
\* _generate_session_name: webscrape_001, webscrape_002, ...
SessionName(session_num) == "webscrape_" \o ToString(session_num)

\* hashlib.md5(source.encode("utf-8")).hexdigest()[:8]
source_hash(source) ==
  CASE source = "hA" -> "0a"
    [] source = "hB" -> "0b"
    [] source = "hC" -> "0c"
    [] source = "hD" -> "0d"
    [] source = "hE" -> "0e"
    [] source = "hF" -> "1f"
    [] source = "hG" -> "10"
    [] OTHER -> "0f"

\* utils.safe_filename: unsafe characters (colon, slash, ...) become an
\* underscore, so a url changes and a title without such characters does not
safe_filename(filename) ==
  IF filename \in WebSources THEN "url_" \o filename ELSE filename

\* os.path.basename
basename(path) == IF path = "/cwd/doc.txt" THEN "doc.txt" ELSE path

\* the <title> of each page
PageTitle(source) ==
  CASE source = "hA" -> "Page A"
    [] source = "hB" -> "Page B"
    [] source = "hC" -> "Page C"
    [] source = "hD" -> "Page D"
    [] source = "hE" -> "Page E"
    [] source = "hF" -> "Page F"
    [] OTHER -> "Page G"

\* the title _process_source passes to save_crawled_data: the page title; the
\* url itself after a failed fetch (lines 503-505); the base name for a file
Title(source, error_message) ==
  IF ~IsWebSource(source) THEN basename(source)
  ELSE IF error_message THEN source
  ELSE PageTitle(source)

\* _save_content_file line 169
FileName(session_num, title, source) ==
  SessionName(session_num) \o "_" \o safe_filename(title) \o "_"
    \o source_hash(source) \o ".md"

\* a write that empties the folder first
WriteFile_Truncates(folder, file) == {file}

\* open(file_path, "w") and the writes: a file of that name is replaced
WriteFile(folder, file) ==
  {f \in folder : f.name # file.name} \cup {file}

\* load_processed_sources_from_files: the names of the .md files
load_processed_sources_from_files(folder) == {f.name : f \in folder}

\* ------------------------------------------------ SearchEngine, at rest
MaxCallers == 2
MaxSearches == 2

Callers == 1..MaxCallers
Queries == {"python"}
MaxResultsArgs == {1, 2}

\* line 310: request_key = f"{query}:{max_results}"
request_key(query, max_results) == query \o ":" \o ToString(max_results)
RequestKeys == {request_key(q, m) : q \in Queries, m \in MaxResultsArgs}

\* line 68: self._active_requests = {}
NoRequests == [k \in RequestKeys |-> None]

\* a thread that is not inside _search_with_fallback
IdleCall == [pc |-> "idle", query |-> "", max_results |-> 0,
             brave |-> "off", tavily |-> "off", result |-> None, raised |-> FALSE,
             duplicate |-> FALSE, from_brave |-> 0]

SearchIdle ==
  /\ brave_available = FALSE /\ tavily_available = FALSE
  /\ active_requests = NoRequests
  /\ calls = [c \in Callers |-> IdleCall]
  /\ h_calls = 0

\* ---------------------------------------- AgentSearchInterface, at rest
MaxTime == 1
CacheMaxFiles == 4
MaxQueries == 2

CacheKeys == {"k1", "k2", "k3", "k4", "k5"}
CacheDirs == {"", "/cache"}
CacheTtls == {0, 1}
Times == 0..MaxTime

NoFiles == [k \in CacheKeys |-> None]

CacheIdle ==
  /\ cache_dir = "" /\ cache_ttl = 0
  /\ cache_max_files = CacheMaxFiles
  /\ cache_files = NoFiles
  /\ now = 0
  /\ h_written = NoFiles
  /\ h_got = None

\* lines 396-398: results = {}, successful = 0, failed = 0
NewBatch == [pc |-> "for", i |-> 1, results |-> << >>, successful |-> 0, failed |-> 0]

BatchIdle ==
  /\ queries = << >>
  /\ batch = [NewBatch EXCEPT !.pc = "idle"]
  /\ response = None

\* ------------------------------------------- SemanticAnalyzer, at rest
MaxEmbeds == 4
EmbeddingCacheMaxSize == 2

\* the threads that share the analyzer: the crawl workers
Embedders == 1..MaxWorkers

\* a thread that is not inside get_embedding
IdleEmbed == [pc |-> "idle", text |-> "", oldest_key |-> "", result |-> None,
              raised |-> FALSE, evicted |-> "none"]

\* lines 47-48: self.embedding_cache = {}
AnalysisIdle ==
  /\ embedding_cache = << >>
  /\ embeds = [w \in Embedders |-> IdleEmbed]
  /\ h_embeds = 0

\* ------------------------------------------------- SearchStats, at rest
MaxLoggers == 2
MaxOps == 2
MaxRecursion == 2
MaxRetries == 3

Loggers == 1..MaxLoggers

\* the stats file: missing, empty, not parseable, or the JSON of a stats
\* record (total_searches, and the sum of searches_by_date)
FileOf(kind, total, dates) == [kind |-> kind, total |-> total, dates |-> dates]

\* lines 24-29: initial_stats
initial_stats == FileOf("json", 0, 0)

\* a thread that is not inside log_search or get_stats
IdleLogger == [pc |-> "idle", op |-> "", then |-> "", retry_count |-> 0,
               stats |-> initial_stats, depth |-> 0, result |-> None,
               raised |-> FALSE, wrote |-> FALSE]

StatsIdle ==
  /\ stats_file = initial_stats
  /\ stats_lock = 0
  /\ loggers = [w \in Loggers |-> IdleLogger]
  /\ h_ops = 0 /\ h_gets = 0
  /\ h_initial = initial_stats
  /\ h_returned = << >>
  /\ h_io = 0

AgentIdle == SearchIdle /\ CacheIdle /\ BatchIdle /\ AnalysisIdle /\ StatsIdle

InitCrawler ==
  /\ max_workers \in WorkerArgs
  /\ default_depth = DefaultDepth
  /\ user_topic \in BOOLEAN
  /\ semantic_analyzer \in Analyzers
  /\ user_topic_embedding \in InitEmbedding(user_topic, semantic_analyzer)
  /\ link_relevance_threshold \in LinkThresholds
  /\ pages \in Graphs
  /\ crawl_queue = << >>
  /\ visited_sources = {}
  /\ files = {}
  /\ session_name = 1
  /\ processed_sources_cache = load_processed_sources_from_files({})
  /\ pc = (IF ConstructorRaises(max_workers) THEN "ValueError" ELSE "start_crawling")
  /\ batch_left = 0
  /\ futures = << >>
  /\ h_enq = ZeroCount /\ h_deq = ZeroCount
  /\ h_fetch = ZeroCount /\ h_store = ZeroCount /\ h_raise = ZeroCount
  /\ h_items = {} /\ h_proc = {} /\ h_stored = {}

Init == InitCrawler /\ AgentIdle

\* ------------------------------------------------- add_to_crawl_queue
\* a child enqueued at its origin's own depth
ChildDepth_Same(current_depth) == current_depth

\* line 634: discovered links are enqueued at current_depth + 1
ChildDepth(current_depth) == current_depth + 1

\* an insert that replaces the queue by the new item
Insert_Overwrites(n, depth, origin, fr) ==
  [visited |-> fr.visited \cup {n},
   queue |-> << << n, depth, origin >> >>,
   enq |-> [fr.enq EXCEPT ![n] = @ + 1],
   items |-> fr.items \cup {<< n, depth, origin >>}]

\* line 447: the membership test
NotVisited(n, visited) == n \notin visited

\* lines 448-451: the insert into the visited set and the put on the queue
Fr(v, q, e, it) == [visited |-> v, queue |-> q, enq |-> e, items |-> it]
Insert(n, depth, origin, fr) ==
  Fr(fr.visited \cup {n},
     Append(fr.queue, << n, depth, origin >>),
     [fr.enq EXCEPT ![n] = @ + 1],
     fr.items \cup {<< n, depth, origin >>})

\* one iteration of the for loop run by a thread that is alone
AddOne(source, depth, origin, fr) ==
  IF NormalizeRaises(source) THEN fr
  ELSE IF NotVisited(Normalize(source), fr.visited)
       THEN Insert(Normalize(source), depth, origin, fr)
       ELSE fr

\* the whole call, run while no other thread exists (the initial sources)
RECURSIVE add_to_crawl_queue(_, _, _, _)
add_to_crawl_queue(sources, depth, origin, fr) ==
  IF sources = << >> THEN fr
  ELSE add_to_crawl_queue(Tail(sources), depth, origin,
                          AddOne(Head(sources), depth, origin, fr))

CurrentFrontier == Fr(visited_sources, crawl_queue, h_enq, h_items)

SetFrontier(fr) ==
  /\ visited_sources' = fr.visited
  /\ crawl_queue' = fr.queue
  /\ h_enq' = fr.enq
  /\ h_items' = fr.items

\* ------------------------------------------------------ dispatch thread
\* start_crawling: set the depth, enqueue the initial sources at depth 0
start_crawling ==
  /\ pc = "start_crawling"
  /\ \/ default_depth' = default_depth            \* crawl_depth is None
     \/ \E crawl_depth \in CrawlDepths : default_depth' = crawl_depth
  /\ \E initial_sources \in InitialLists :
       SetFrontier(add_to_crawl_queue(initial_sources, 0, "initial", CurrentFrontier))
  /\ pc' = "while"
  /\ UNCHANGED << agent, config, processed_sources_cache, disk, batch_left, futures,
                  h_deq, h_fetch, h_store, h_raise, h_proc, h_stored >>

\* a loop that is left while one item is still queued
LoopTest_ExitEarly ==
  /\ pc = "while"
  /\ IF Len(crawl_queue) <= 1
     THEN /\ pc' = "returned"
          /\ UNCHANGED << batch_left, futures >>
     ELSE /\ pc' = "for"
          /\ futures' = << >>
          /\ batch_left' = Min(max_workers * BatchFactor, Len(crawl_queue))
  /\ UNCHANGED << agent, config, default_depth, frontier, processed_sources_cache, disk,
                  history >>

\* a loop whose batch size ignores the queue size
LoopTest_FixedBatch ==
  /\ pc = "while"
  /\ IF crawl_queue = << >>
     THEN /\ pc' = "returned"
          /\ UNCHANGED << batch_left, futures >>
     ELSE /\ pc' = "for"
          /\ futures' = << >>
          /\ batch_left' = max_workers * BatchFactor
  /\ UNCHANGED << agent, config, default_depth, frontier, processed_sources_cache, disk,
                  history >>

\* while not self.crawl_queue.empty(): futures = []; batch_size = min(...)
\* leaving the loop also leaves the executor's with block
LoopTest ==
  /\ pc = "while"
  /\ IF crawl_queue = << >>
     THEN /\ pc' = "returned"
          /\ UNCHANGED << batch_left, futures >>
     ELSE /\ pc' = "for"
          /\ futures' = << >>
          /\ batch_left' = Min(max_workers * BatchFactor, Len(crawl_queue))
  /\ UNCHANGED << agent, config, default_depth, frontier, processed_sources_cache, disk,
                  history >>

\* a _process_source call submitted to the executor
\* skipped: the already-processed check returned early; raised: where an
\* exception left the try body; relevance, link_calls, passed: what
\* _extract_and_queue_links scored and what it passed to add_to_crawl_queue
NewTask(item) ==
  [pc |-> "pending", source |-> item[1], depth |-> item[2], origin |-> item[3],
   skipped |-> FALSE, fetched |-> "not yet", score |-> None, raised |-> "no",
   stores |-> 0, discovery |-> FALSE, relevance |-> << >>, link_calls |-> 0,
   passed |-> << >>, links |-> << >>, added |-> 0]

\* one iteration of for _ in range(batch_size): break when empty, else get
\* and submit
Submit ==
  /\ pc = "for"
  /\ IF batch_left = 0 \/ crawl_queue = << >>
     THEN /\ pc' = "as_completed"
          /\ UNCHANGED << batch_left, futures, crawl_queue, h_deq >>
     ELSE /\ crawl_queue' = Tail(crawl_queue)
          /\ futures' = Append(futures, NewTask(Head(crawl_queue)))
          /\ batch_left' = batch_left - 1
          /\ h_deq' = [h_deq EXCEPT ![Head(crawl_queue)[1]] = @ + 1]
          /\ pc' = pc
  /\ UNCHANGED << agent, config, default_depth, visited_sources, processed_sources_cache,
                  disk, h_enq, h_fetch, h_store, h_raise, h_items, h_proc, h_stored >>

\* a dispatcher that goes back to the loop test without waiting
BatchDone_NoWait ==
  /\ pc = "as_completed"
  /\ pc' = "while"
  /\ UNCHANGED << agent, config, default_depth, frontier, processed_sources_cache, disk,
                  batch_left, futures, history >>

\* for future in as_completed(futures): every future of the batch is done
BatchDone ==
  /\ pc = "as_completed"
  /\ \A i \in 1..Len(futures) : futures[i].pc = "done"
  /\ pc' = "while"
  /\ UNCHANGED << agent, config, default_depth, frontier, processed_sources_cache, disk,
                  batch_left, futures, history >>

\* ------------------------------------------------------- worker threads
Running == {i \in 1..Len(futures) : futures[i].pc \notin {"pending", "done"}}

\* StorageManager.is_source_processed
is_source_processed(source) == source \in processed_sources_cache

\* a scoring guard that does not look at the topic embedding
Scored_NoEmbeddingTest(content_text) ==
  content_text /\ semantic_analyzer # "absent" /\ is_available

\* lines 528-533: the topic score is computed
Scored(content_text) ==
  content_text /\ semantic_analyzer # "absent" /\ is_available /\ user_topic_embedding

\* a depth limit that also lets an item at the limit discover links
DepthBudget_OffByOne(current_depth) ==
  default_depth = -1 \/ current_depth <= default_depth

\* line 559: depth budget remains
DepthBudget(current_depth) ==
  default_depth = -1 \/ current_depth < default_depth

\* a pruning test that also prunes a score equal to the threshold
TopicPrunes_AtThreshold(score) ==
  user_topic /\ score # None /\ Val(score) <= TopicThreshold

\* lines 563-567: the page's topic score is below the threshold
TopicPrunes(score) ==
  user_topic /\ score # None /\ Val(score) < TopicThreshold

\* lines 555-573: the guard of the call to _extract_and_queue_links
FollowLinks(source, depth, content_text, raw_html, score) ==
  /\ content_text
  /\ IsWebSource(source)
  /\ raw_html
  /\ DepthBudget(depth)
  /\ ~TopicPrunes(score)

\* an advanced mode that also starts at a threshold of exactly 0.8
AdvancedMode_AtCut ==
  semantic_analyzer # "absent" /\ is_available /\ link_relevance_threshold >= AdvancedCut

\* lines 600-604: advanced link filtering is on
AdvancedMode ==
  semantic_analyzer # "absent" /\ is_available /\ link_relevance_threshold > AdvancedCut

\* lines 610-615: score_link_relevance is called for this link
LinkScored(link_info) == AdvancedMode /\ link_info.anchor

\* a filter that drops a link whose score equals the threshold
LinkKept_Above(link_info, relevance_k) ==
  IF LinkScored(link_info) THEN relevance_k > link_relevance_threshold ELSE TRUE

\* lines 616-623: the link is appended to relevant_links
LinkKept(link_info, relevance_k) ==
  IF LinkScored(link_info) THEN relevance_k >= link_relevance_threshold ELSE TRUE

\* lines 610-623: the urls kept by the filter; relevance[k] is what
\* score_link_relevance returns for the k-th link
RECURSIVE relevant_links(_, _, _)
relevant_links(links_data, relevance, k) ==
  IF k > Len(links_data) THEN << >>
  ELSE (IF LinkKept(links_data[k], relevance[k]) THEN << links_data[k].url >>
                                                 ELSE << >>)
         \o relevant_links(links_data, relevance, k + 1)

\* what score_link_relevance returns for each link; 0 where it is not called
RelevanceChoices(links_data) ==
  {r \in [1..Len(links_data) -> LinkScoreVals \cup {0}] :
     \A k \in 1..Len(links_data) : (r[k] = 0) <=> ~LinkScored(links_data[k])}

\* the number of score_link_relevance calls for a page
LinkCalls(links_data) ==
  Cardinality({k \in 1..Len(links_data) : LinkScored(links_data[k])})

\* get_content_and_title: raw_html is None for a file and for a failed
\* request, the response text (possibly empty) otherwise; a parsing error
\* returns the error together with the raw_html already read
RawHtml(source, outcome) ==
  IF ~IsWebSource(source) THEN {FALSE}
  ELSE IF outcome = "ok" THEN {TRUE}
  ELSE BOOLEAN

\* a check whose result is ignored: the source is fetched anyway
AfterCheck_Ignored(processed) == "fetch"

\* lines 485-487: return 0 when the source is already processed
AfterCheck(processed) == IF processed THEN "done" ELSE "fetch"

\* a handler that still hands the links filtered so far to add_to_crawl_queue
Caught_KeepsLinks(t, where, links) ==
  [t EXCEPT !.raised = where, !.relevance = << >>, !.passed = links, !.links = links,
            !.pc = IF links = << >> THEN "done" ELSE "test"]

\* lines 580-582 and 641-643: the except handlers log the error and return 0
Caught(t, where, links) ==
  [t EXCEPT !.raised = where, !.relevance = << >>, !.passed = << >>,
            !.links = << >>, !.pc = "done"]

\* a pool thread takes the oldest pending task and runs _process_source up to
\* the already-processed check (lines 478-487)
WorkerStart(i) ==
  /\ futures[i].pc = "pending"
  /\ \A j \in 1..(i - 1) : futures[j].pc # "pending"
  /\ Cardinality(Running) < max_workers
  /\ futures' = [futures EXCEPT ![i] =
       [@ EXCEPT !.skipped = is_source_processed(futures[i].source),
                 !.pc = AfterCheck(is_source_processed(futures[i].source))]]
  /\ h_proc' = h_proc \cup {<< futures[i].source, futures[i].depth >>}
  /\ UNCHANGED << agent, config, default_depth, frontier, processed_sources_cache, disk,
                  pc, batch_left, h_enq, h_deq, h_fetch, h_store, h_raise, h_items,
                  h_stored >>

\* a save that is skipped when the fetch produced no text
save_crawled_data_OnlyText(source, title, error_message, content_text, score) ==
  IF content_text
  THEN /\ files' = WriteFile(files,
            [name |-> FileName(session_name, title, source), session |-> session_name,
             source |-> source, title |-> title, text |-> content_text,
             error |-> error_message, score |-> score])
       /\ processed_sources_cache' = processed_sources_cache \cup {source}
       /\ h_store' = [h_store EXCEPT ![source] = @ + 1]
       /\ h_stored' = h_stored \cup
            {[source |-> source, text |-> content_text,
              error |-> error_message, score |-> score]}
  ELSE UNCHANGED << files, processed_sources_cache, h_store, h_stored >>

\* StorageManager.save_crawled_data: write the file, mark the source
save_crawled_data(source, title, error_message, content_text, score) ==
  /\ files' = WriteFile(files,
       [name |-> FileName(session_name, title, source), session |-> session_name,
        source |-> source, title |-> title, text |-> content_text,
        error |-> error_message, score |-> score])
  /\ processed_sources_cache' = processed_sources_cache \cup {source}
  /\ h_store' = [h_store EXCEPT ![source] = @ + 1]
  /\ h_stored' = h_stored \cup
       {[source |-> source, text |-> content_text,
         error |-> error_message, score |-> score]}

\* lines 489-578 up to the call of add_to_crawl_queue: fetch, score, save,
\* decide on link discovery, extract and filter the links.
\* get_embedding (semantic.py 158) encodes the text outside its try block, so
\* score_topic_relevance and score_link_relevance can raise: a topic score
\* that raises leaves through the handler of lines 580-582 before the save,
\* a link score that raises leaves through the handler of lines 641-643
FetchStore(i) ==
  /\ futures[i].pc = "fetch"
  /\ \E outcome \in FetchOutcomes :
       LET t == [futures[i] EXCEPT !.fetched = outcome]
           content_text == outcome = "ok"
           error_message == outcome = "error"
           links_data == extract_links(pages[t.source])
       IN /\ h_fetch' = [h_fetch EXCEPT ![t.source] = @ + 1]
          /\ \/ /\ Scored(content_text)
                /\ futures' = [futures EXCEPT ![i] = Caught(t, "topic", << >>)]
                /\ h_raise' = [h_raise EXCEPT ![t.source] = @ + 1]
                /\ UNCHANGED << files, processed_sources_cache, h_store, h_stored >>
             \/ \E raw_html \in RawHtml(t.source, outcome),
                   score \in (IF Scored(content_text) THEN {Some(v) : v \in ScoreVals}
                                                     ELSE {None}) :
                  LET follow == FollowLinks(t.source, t.depth, content_text, raw_html, score)
                      stored == [t EXCEPT !.score = score, !.stores = @ + 1,
                                          !.discovery = follow]
                  IN /\ save_crawled_data(t.source, Title(t.source, error_message),
                                          error_message, content_text, score)
                     /\ h_raise' = h_raise
                     /\ \E relevance \in (IF follow THEN RelevanceChoices(links_data)
                                                    ELSE {<< >>}) :
                          LET links == IF follow THEN relevant_links(links_data, relevance, 1)
                                                 ELSE << >>
                              scored == [stored EXCEPT
                                           !.relevance = relevance,
                                           !.link_calls = IF follow THEN LinkCalls(links_data)
                                                                    ELSE 0]
                          IN \/ futures' = [futures EXCEPT ![i] =
                                  [scored EXCEPT !.passed = links, !.links = links,
                                     !.pc = IF links = << >> THEN "done" ELSE "test"]]
                             \/ /\ scored.link_calls > 0
                                /\ futures' = [futures EXCEPT ![i] =
                                     Caught(scored, "links", links)]
  /\ UNCHANGED << agent, config, default_depth, frontier, session_name, pc, batch_left,
                  h_enq, h_deq, h_items, h_proc >>

NextLink(t) ==
  [t EXCEPT !.links = Tail(@),
            !.pc = IF Tail(t.links) = << >> THEN "done" ELSE "test"]

\* add_to_crawl_queue called by a worker, line 447: the membership test of
\* the next link
EnqueueTest(i) ==
  /\ futures[i].pc = "test"
  /\ futures' = [futures EXCEPT ![i] =
       IF NotVisited(Normalize(Head(futures[i].links)), visited_sources)
       THEN [@ EXCEPT !.pc = "insert"]
       ELSE NextLink(@)]
  /\ UNCHANGED << agent, config, default_depth, frontier, processed_sources_cache, disk,
                  pc, batch_left, history >>

\* add_to_crawl_queue called by a worker, lines 448-451: the insert that
\* follows a passed membership test
EnqueueInsert(i) ==
  /\ futures[i].pc = "insert"
  /\ SetFrontier(Insert(Normalize(Head(futures[i].links)), ChildDepth(futures[i].depth),
                        futures[i].source, CurrentFrontier))
  /\ futures' = [futures EXCEPT ![i] = [NextLink(@) EXCEPT !.added = @ + 1]]
  /\ UNCHANGED << agent, config, default_depth, processed_sources_cache, disk, pc, batch_left,
                  h_deq, h_fetch, h_store, h_raise, h_proc, h_stored >>

Worker(i) == WorkerStart(i) \/ FetchStore(i) \/ EnqueueTest(i) \/ EnqueueInsert(i)

Next ==
  \/ start_crawling
  \/ LoopTest
  \/ Submit
  \/ BatchDone
  \/ \E i \in 1..Len(futures) : WorkerStart(i)
  \/ \E i \in 1..Len(futures) : FetchStore(i)
  \/ \E i \in 1..Len(futures) : EnqueueTest(i)
  \/ \E i \in 1..Len(futures) : EnqueueInsert(i)

Spec == Init /\ [][Next]_vars

\* ------------------------------------------------ runs on one output folder
\* WebScraperAPI.scrape called again with the same output_dir: a new
\* StorageManager (next session number, ledger loaded from the folder) and a
\* new WebCrawler; the call counts are those of the current run
Restart ==
  /\ pc = "returned"
  /\ session_name < MaxRuns
  /\ session_name' = session_name + 1
  /\ processed_sources_cache' = load_processed_sources_from_files(files)
  /\ crawl_queue' = << >>
  /\ visited_sources' = {}
  /\ default_depth' = DefaultDepth
  /\ pc' = "start_crawling"
  /\ batch_left' = 0
  /\ futures' = << >>
  /\ h_enq' = ZeroCount /\ h_deq' = ZeroCount
  /\ h_fetch' = ZeroCount /\ h_store' = ZeroCount /\ h_raise' = ZeroCount
  /\ h_items' = {} /\ h_proc' = {} /\ h_stored' = {}
  /\ UNCHANGED << agent, config, files >>

\* one worker, no analyzer, the two-page cycle
CrawlerIdle ==
  /\ InitCrawler
  /\ max_workers = 1
  /\ ~user_topic
  /\ semantic_analyzer = "absent"
  /\ link_relevance_threshold = 6
  /\ pages = GraphCycle

InitRuns == CrawlerIdle /\ AgentIdle

NextRuns == Next \/ Restart

SpecRuns == InitRuns /\ [][NextRuns]_vars

\* ------------------------------------------- a run with a wide first level
\* two workers, no analyzer, no topic, five initial sources
InitWide ==
  /\ AgentIdle
  /\ max_workers = 2
  /\ default_depth = DefaultDepth
  /\ user_topic = FALSE
  /\ semantic_analyzer = "absent"
  /\ user_topic_embedding \in InitEmbedding(user_topic, semantic_analyzer)
  /\ link_relevance_threshold = 6
  /\ pages = GraphRace
  /\ crawl_queue = << >>
  /\ visited_sources = {}
  /\ files = {}
  /\ session_name = 1
  /\ processed_sources_cache = load_processed_sources_from_files({})
  /\ pc = "start_crawling"
  /\ batch_left = 0
  /\ futures = << >>
  /\ h_enq = ZeroCount /\ h_deq = ZeroCount
  /\ h_fetch = ZeroCount /\ h_store = ZeroCount /\ h_raise = ZeroCount
  /\ h_items = {} /\ h_proc = {} /\ h_stored = {}

\* start_crawling with the five initial sources
start_crawling_wide ==
  /\ pc = "start_crawling"
  /\ \/ default_depth' = default_depth            \* crawl_depth is None
     \/ \E crawl_depth \in CrawlDepths : default_depth' = crawl_depth
  /\ \E initial_sources \in WideLists :
       SetFrontier(add_to_crawl_queue(initial_sources, 0, "initial", CurrentFrontier))
  /\ pc' = "while"
  /\ UNCHANGED << agent, config, processed_sources_cache, disk, batch_left, futures,
                  h_deq, h_fetch, h_store, h_raise, h_proc, h_stored >>

NextWide ==
  \/ start_crawling_wide
  \/ LoopTest
  \/ Submit
  \/ BatchDone
  \/ \E i \in 1..Len(futures) : WorkerStart(i)
  \/ \E i \in 1..Len(futures) : FetchStore(i)
  \/ \E i \in 1..Len(futures) : EnqueueTest(i)
  \/ \E i \in 1..Len(futures) : EnqueueInsert(i)

SpecWide == InitWide /\ [][NextWide]_vars

\* =========================================================== SearchEngine
\* the result lists an engine request and _filter_and_rank_results can give
RawAnswers == {<< >>, <<"u1">>, <<"u1", "u2">>, <<"u1", "u1">>}

Take(seq, n) == SubSeq(seq, 1, Min(Len(seq), n))

\* lines 292-294: at most max_results results are returned
filter_and_rank_results(raw, max_results) == Take(raw, max_results)

RECURSIVE Without(_, _)
\* lines 347-350: the results whose url is not among the existing ones
Without(results, existing) ==
  IF results = << >> THEN << >>
  ELSE IF Head(results) \in existing THEN Without(Tail(results), existing)
       ELSE << Head(results) >> \o Without(Tail(results), existing)

Range(seq) == {seq[k] : k \in 1..Len(seq)}

KeyOf(c) == request_key(calls[c].query, calls[c].max_results)

\* a cleanup that leaves the entry in place
Cleanup_Keeps(requests, key) == requests

\* line 368: del self._active_requests[request_key]
Cleanup(requests, key) == [requests EXCEPT ![key] = None]

\* a thread enters _search_with_fallback
Call(c) ==
  /\ calls[c].pc \in {"idle", "done"}
  /\ h_calls < MaxSearches
  /\ \E q \in Queries, m \in MaxResultsArgs :
       calls' = [calls EXCEPT ![c] = [IdleCall EXCEPT !.pc = "test", !.query = q,
                                                      !.max_results = m]]
  /\ h_calls' = h_calls + 1
  /\ UNCHANGED << crawler, others, cache, batches, engine, active_requests >>

\* line 311: if request_key in self._active_requests
DuplicateTest(c) ==
  /\ calls[c].pc = "test"
  /\ calls' = [calls EXCEPT ![c].pc =
                 IF active_requests[KeyOf(c)] # None THEN "duplicate" ELSE "mark"]
  /\ UNCHANGED << crawler, others, cache, batches, engine, active_requests, h_calls >>

\* line 315: return self._active_requests[request_key], a KeyError when the
\* entry was deleted since the test
DuplicateReturn(c) ==
  /\ calls[c].pc = "duplicate"
  /\ calls' = [calls EXCEPT ![c].pc = "done",
                            ![c].duplicate = TRUE,
                            ![c].result = active_requests[KeyOf(c)],
                            ![c].raised = (active_requests[KeyOf(c)] = None)]
  /\ UNCHANGED << crawler, others, cache, batches, engine, active_requests, h_calls >>

\* line 318: self._active_requests[request_key] = []
MarkActive(c) ==
  /\ calls[c].pc = "mark"
  /\ active_requests' = [active_requests EXCEPT ![KeyOf(c)] = Some(<< >>)]
  /\ calls' = [calls EXCEPT ![c].pc = "engines"]
  /\ UNCHANGED << crawler, others, cache, batches, engine, h_calls >>

\* lines 321-361: Brave, then Tavily when results are missing; an engine that
\* raises adds nothing; the final list is stored in the entry and returned
Engines(c) ==
  /\ calls[c].pc = "engines"
  /\ LET m == calls[c].max_results
         BraveOutcomes ==
           IF brave_available
           THEN {<< "raised", << >> >>}
                  \cup {<< "answered", filter_and_rank_results(raw, m) >> : raw \in RawAnswers}
           ELSE {<< "off", << >> >>}
         TavilyOutcomes(all_results) ==
           IF tavily_available /\ Len(all_results) < m
           THEN {<< "raised", << >> >>}
                  \cup {<< "answered",
                           Without(filter_and_rank_results(raw, m - Len(all_results)),
                                   Range(all_results)) >> : raw \in RawAnswers}
           ELSE {<< "off", << >> >>}
     IN \E b \in BraveOutcomes :
          \E t \in TavilyOutcomes(b[2]) :
            LET final_results == Take(b[2] \o t[2], m)
            IN /\ active_requests' =
                    [active_requests EXCEPT ![KeyOf(c)] = Some(final_results)]
               /\ calls' = [calls EXCEPT ![c].pc = "finally",
                                         ![c].brave = b[1],
                                         ![c].tavily = t[1],
                                         ![c].from_brave = Len(b[2]),
                                         ![c].result = Some(final_results)]
  /\ UNCHANGED << crawler, others, cache, batches, engine, h_calls >>

\* line 367: if request_key in self._active_requests
FinallyTest(c) ==
  /\ calls[c].pc = "finally"
  /\ calls' = [calls EXCEPT ![c].pc =
                 IF active_requests[KeyOf(c)] # None THEN "del" ELSE "done"]
  /\ UNCHANGED << crawler, others, cache, batches, engine, active_requests, h_calls >>

\* line 368: the del, a KeyError when the entry was deleted since the test
\* (the exception replaces the return value)
FinallyDel(c) ==
  /\ calls[c].pc = "del"
  /\ IF active_requests[KeyOf(c)] # None
     THEN /\ active_requests' = Cleanup(active_requests, KeyOf(c))
          /\ calls' = [calls EXCEPT ![c].pc = "done"]
     ELSE /\ calls' = [calls EXCEPT ![c].pc = "done", ![c].result = None,
                                    ![c].raised = TRUE]
          /\ UNCHANGED active_requests
  /\ UNCHANGED << crawler, others, cache, batches, engine, h_calls >>

InitSearch ==
  /\ CrawlerIdle
  /\ brave_available \in BOOLEAN /\ tavily_available \in BOOLEAN
  /\ active_requests = NoRequests
  /\ calls = [c \in Callers |-> IdleCall]
  /\ h_calls = 0
  /\ CacheIdle /\ BatchIdle /\ AnalysisIdle /\ StatsIdle

NextSearch ==
  \/ \E c \in Callers : Call(c)
  \/ \E c \in Callers : DuplicateTest(c)
  \/ \E c \in Callers : DuplicateReturn(c)
  \/ \E c \in Callers : MarkActive(c)
  \/ \E c \in Callers : Engines(c)
  \/ \E c \in Callers : FinallyTest(c)
  \/ \E c \in Callers : FinallyDel(c)

SpecSearch == InitSearch /\ [][NextSearch]_vars

\* ======================================= AgentSearchInterface: the cache
\* the responses search builds (lines 339-351), by the fields kept here
Results == [status : {"success"}, results_returned : 0..1, cache_hit : {FALSE}]

\* datetime.isoformat and datetime.fromisoformat
isoformat(t) == "T" \o ToString(t)
fromisoformat(text) == CHOOSE t \in Times : isoformat(t) = text

\* a decimal numeral read back as a number
ParseInt(text) == CHOOSE n \in 0..9 : ToString(n) = text

\* json.dump of {"timestamp": ..., "result": ...}: the text as its tokens
json_dump(data) ==
  << "timestamp", data.timestamp,
     "result",
       "status", data.result.status,
       "results_returned", ToString(data.result.results_returned),
       "cache_hit", IF data.result.cache_hit THEN "true" ELSE "false" >>

\* a parser that reads every number as 0
json_load_NoNumbers(text) ==
  [timestamp |-> text[2],
   result |-> [status |-> text[5], results_returned |-> 0, cache_hit |-> text[9] = "true"]]

\* json.load of such a text
json_load(text) ==
  [timestamp |-> text[2],
   result |-> [status |-> text[5],
               results_returned |-> ParseInt(text[7]),
               cache_hit |-> text[9] = "true"]]

Present(entries) == {k \in CacheKeys : entries[k] # None}

\* line 122: the path of the entry; the keys in the order of their paths
KeyRank(k) == CHOOSE n \in 1..Cardinality(CacheKeys) : k = "k" \o ToString(n)

\* line 215: the sort of the (mtime, cache_file) pairs
Before(entries, j, k) ==
  \/ Val(entries[j]).mtime < Val(entries[k]).mtime
  \/ Val(entries[j]).mtime = Val(entries[k]).mtime /\ KeyRank(j) < KeyRank(k)

\* _check_cache_size, lines 202-222: more than cache_max_files entries, then
\* the oldest fifth is removed
check_cache_size(entries) ==
  LET n == Cardinality(Present(entries))
      files_to_remove == n \div 5
      oldest == {k \in Present(entries) :
                   Cardinality({j \in Present(entries) : Before(entries, j, k)}) < files_to_remove}
  IN IF n > cache_max_files
     THEN [k \in CacheKeys |-> IF k \in oldest THEN None ELSE entries[k]]
     ELSE entries

\* _cache_result, lines 145-160
CacheResult(k, r) ==
  /\ IF cache_dir = ""
     THEN UNCHANGED cache_files
     ELSE cache_files' =
            check_cache_size(
              [cache_files EXCEPT ![k] =
                 Some([text |-> json_dump([timestamp |-> isoformat(now), result |-> r]),
                       mtime |-> now])])
  /\ h_written' = [h_written EXCEPT ![k] = Some(<< r, now >>)]
  /\ h_got' = None
  /\ UNCHANGED << crawler, others, searches, batches, cache_dir, cache_ttl, cache_max_files, now >>

CachedData(k) == json_load(Val(cache_files[k]).text)

\* an expiry test that never fires
Expired_Never(k) == FALSE

\* line 132: datetime.now() - cached_time > self.cache_ttl
Expired(k) == now - fromisoformat(CachedData(k).timestamp) > cache_ttl

\* _get_cached_result, lines 117-143: the value returned
get_cached_result(k) ==
  IF cache_dir = "" THEN None
  ELSE IF cache_files[k] = None THEN None
  ELSE IF Expired(k) THEN None
  ELSE Some(CachedData(k).result)

\* _get_cached_result, lines 117-143: the call, which removes an expired entry
GetCached(k) ==
  /\ h_got' = << k, get_cached_result(k), h_written[k] >>
  /\ IF cache_dir # "" /\ cache_files[k] # None /\ Expired(k)
     THEN /\ cache_files' = [cache_files EXCEPT ![k] = None]
          /\ h_written' = [h_written EXCEPT ![k] = None]
     ELSE UNCHANGED << cache_files, h_written >>
  /\ UNCHANGED << crawler, others, searches, batches, cache_dir, cache_ttl, cache_max_files, now >>

\* time passes
Tick ==
  /\ now < MaxTime
  /\ now' = now + 1
  /\ h_got' = None
  /\ UNCHANGED << crawler, others, searches, batches, cache_dir, cache_ttl, cache_max_files,
                  cache_files, h_written >>

InitCache ==
  /\ CrawlerIdle /\ SearchIdle /\ BatchIdle /\ AnalysisIdle /\ StatsIdle
  /\ cache_dir \in CacheDirs
  /\ cache_ttl \in CacheTtls
  /\ cache_max_files = CacheMaxFiles
  /\ cache_files = NoFiles
  /\ now = 0
  /\ h_written = NoFiles
  /\ h_got = None

NextCache ==
  \/ \E k \in CacheKeys, r \in Results : CacheResult(k, r)
  \/ \E k \in CacheKeys : GetCached(k)
  \/ Tick

SpecCache == InitCache /\ [][NextCache]_vars

\* ----------------------------------------- the cache with a lowered limit
\* agent.cache_max_files = 3 (tests/test_agent_interface.py 196): the limits
\* from 1 up to the one of InitCache
CacheLimits == 1..CacheMaxFiles

InitLimits ==
  /\ CrawlerIdle /\ SearchIdle /\ BatchIdle /\ AnalysisIdle /\ StatsIdle
  /\ cache_dir = "/cache"
  /\ cache_ttl = 1
  /\ cache_max_files \in CacheLimits
  /\ cache_files = NoFiles
  /\ now = 0
  /\ h_written = NoFiles
  /\ h_got = None

SpecLimits == InitLimits /\ [][NextCache]_vars

\* ================================= AgentSearchInterface: batch_search
QueryTexts == {"python", "rust"}
QueryConfigs == [query : QueryTexts, max_results : {3, 5}]
QueryLists == UNION {[1..n -> QueryConfigs] : n \in 0..MaxQueries}

\* search, lines 339-365: a success response or an error response
SearchStatuses == {"success", "error"}
search(query_config, status) == [status |-> status, query |-> query_config.query]

\* results[query] = result
DictSet(d, key, value) ==
  [x \in DOMAIN d \cup {key} |-> IF x = key THEN value ELSE d[x]]

\* lines 400-419: one iteration of the for loop
BatchIter ==
  /\ batch.pc = "for"
  /\ batch.i <= Len(queries)
  /\ \E status \in SearchStatuses :
       LET result == search(queries[batch.i], status)
       IN batch' = [batch EXCEPT
                      !.i = @ + 1,
                      !.results = DictSet(@, queries[batch.i].query, result),
                      !.successful = IF result.status = "success" THEN @ + 1 ELSE @,
                      !.failed = IF result.status = "success" THEN @ ELSE @ + 1]
  /\ UNCHANGED << crawler, others, searches, cache, queries, response >>

\* lines 421-428: the return value
BatchReturn ==
  /\ batch.pc = "for"
  /\ batch.i > Len(queries)
  /\ response' = Some([status |-> "success",
                       total_queries |-> Len(queries),
                       successful |-> batch.successful,
                       failed |-> batch.failed,
                       results |-> batch.results])
  /\ batch' = [batch EXCEPT !.pc = "returned"]
  /\ UNCHANGED << crawler, others, searches, cache, queries >>

InitBatch ==
  /\ CrawlerIdle /\ SearchIdle /\ CacheIdle /\ AnalysisIdle /\ StatsIdle
  /\ queries \in QueryLists
  /\ batch = NewBatch
  /\ response = None

NextBatch == BatchIter \/ BatchReturn

SpecBatch == InitBatch /\ [][NextBatch]_vars

\* ============================================ SemanticAnalyzer.get_embedding
\* the texts passed to get_embedding; the empty text returns None at line 155
Texts == {"", "a", "b", "c"}

\* line 158: hashlib.md5(text.encode("utf-8")).hexdigest(); the embedding of
\* a text is written as Some of its key
text_hash(text) == "md5_" \o text

InCache(key) == \E k \in 1..Len(embedding_cache) : embedding_cache[k] = key

RECURSIVE Remove(_, _)
\* del self.embedding_cache[key]: the order of the other keys is kept
Remove(keys, key) ==
  IF keys = << >> THEN << >>
  ELSE IF Head(keys) = key THEN Tail(keys)
       ELSE << Head(keys) >> \o Remove(Tail(keys), key)

\* a thread enters get_embedding; lines 152-156 return None without the
\* analyzer or for an empty text
EmbedCall(w) ==
  /\ embeds[w].pc \in {"idle", "done"}
  /\ h_embeds < MaxEmbeds
  /\ \E text \in Texts :
       embeds' = [embeds EXCEPT ![w] =
         [IdleEmbed EXCEPT !.text = text,
                           !.pc = IF ~is_available \/ text = "" THEN "done" ELSE "test"]]
  /\ h_embeds' = h_embeds + 1
  /\ UNCHANGED << crawler, searches, cache, batches, stats, embedding_cache >>

\* line 159: if text_hash in self.embedding_cache
EmbedTest(w) ==
  /\ embeds[w].pc = "test"
  /\ embeds' = [embeds EXCEPT ![w].pc =
                  IF InCache(text_hash(embeds[w].text)) THEN "hit" ELSE "request"]
  /\ UNCHANGED << crawler, searches, cache, batches, stats, embedding_cache, h_embeds >>

\* line 160: return self.embedding_cache[text_hash], outside the try block:
\* a KeyError when the entry was evicted since the test
EmbedHit(w) ==
  /\ embeds[w].pc = "hit"
  /\ IF InCache(text_hash(embeds[w].text))
     THEN embeds' = [embeds EXCEPT ![w].pc = "done", ![w].result = Some(text_hash(embeds[w].text))]
     ELSE embeds' = [embeds EXCEPT ![w].pc = "done", ![w].raised = TRUE]
  /\ UNCHANGED << crawler, searches, cache, batches, stats, embedding_cache, h_embeds >>

\* lines 163-166 and 176-182: the request gives an exception, a response
\* without an embedding (both return None), or an embedding
EmbedRequest(w) ==
  /\ embeds[w].pc = "request"
  /\ \E outcome \in {"raised", "none", "embedding"} :
       IF outcome = "embedding"
       THEN embeds' = [embeds EXCEPT ![w].pc = "len"]
       ELSE embeds' = [embeds EXCEPT ![w].pc = "done", ![w].result = None]
  /\ UNCHANGED << crawler, searches, cache, batches, stats, embedding_cache, h_embeds >>

\* line 168: len(self.embedding_cache) >= self.embedding_cache_max_size
EmbedLen(w) ==
  /\ embeds[w].pc = "len"
  /\ embeds' = [embeds EXCEPT ![w].pc =
                  IF Len(embedding_cache) >= EmbeddingCacheMaxSize THEN "oldest" ELSE "store"]
  /\ UNCHANGED << crawler, searches, cache, batches, stats, embedding_cache, h_embeds >>

\* line 170: oldest_key = next(iter(self.embedding_cache)); StopIteration on
\* an empty cache is caught at line 180 and the call returns None
EmbedOldest(w) ==
  /\ embeds[w].pc = "oldest"
  /\ IF embedding_cache = << >>
     THEN embeds' = [embeds EXCEPT ![w].pc = "done", ![w].evicted = "failed"]
     ELSE embeds' = [embeds EXCEPT ![w].pc = "del", ![w].oldest_key = Head(embedding_cache)]
  /\ UNCHANGED << crawler, searches, cache, batches, stats, embedding_cache, h_embeds >>

\* line 171: del self.embedding_cache[oldest_key]; a KeyError is caught at
\* line 180 and the call returns None
EmbedDel(w) ==
  /\ embeds[w].pc = "del"
  /\ IF InCache(embeds[w].oldest_key)
     THEN /\ embedding_cache' = Remove(embedding_cache, embeds[w].oldest_key)
          /\ embeds' = [embeds EXCEPT
               ![w].pc = "store",
               ![w].evicted = IF Head(embedding_cache) = embeds[w].oldest_key
                              THEN "oldest" ELSE "other"]
     ELSE /\ embeds' = [embeds EXCEPT ![w].pc = "done", ![w].evicted = "failed"]
          /\ UNCHANGED embedding_cache
  /\ UNCHANGED << crawler, searches, cache, batches, stats, h_embeds >>

\* lines 173-175: self.embedding_cache[text_hash] = embedding; return it
EmbedStore(w) ==
  /\ embeds[w].pc = "store"
  /\ embedding_cache' =
       IF InCache(text_hash(embeds[w].text)) THEN embedding_cache
       ELSE Append(embedding_cache, text_hash(embeds[w].text))
  /\ embeds' = [embeds EXCEPT ![w].pc = "done", ![w].result = Some(text_hash(embeds[w].text))]
  /\ UNCHANGED << crawler, searches, cache, batches, stats, h_embeds >>

\* an analyzer of any kind, shared by the workers of an idle crawler
InitEmbed ==
  /\ InitCrawler
  /\ max_workers = MaxWorkers
  /\ user_topic = FALSE
  /\ link_relevance_threshold = 6
  /\ pages = GraphCycle
  /\ SearchIdle /\ CacheIdle /\ BatchIdle /\ AnalysisIdle /\ StatsIdle

NextEmbed ==
  \/ \E w \in Embedders : EmbedCall(w)
  \/ \E w \in Embedders : EmbedTest(w)
  \/ \E w \in Embedders : EmbedHit(w)
  \/ \E w \in Embedders : EmbedRequest(w)
  \/ \E w \in Embedders : EmbedLen(w)
  \/ \E w \in Embedders : EmbedOldest(w)
  \/ \E w \in Embedders : EmbedDel(w)
  \/ \E w \in Embedders : EmbedStore(w)

SpecEmbed == InitEmbed /\ [][NextEmbed]_vars

\* ============================================================ SearchStats
\* the states of the file when the calls begin
InitialFiles ==
  {FileOf("missing", 0, 0), FileOf("empty", 0, 0), FileOf("corrupt", 0, 0),
   initial_stats, FileOf("json", 1, 1)}

\* json.dump through a handle opened with "w" earlier, written from offset 0
\* without truncating again: onto an empty file or onto the same text it
\* gives the text; onto the longer text of updated stats it leaves that
\* text's tail behind, which does not parse
Overlay(current, text) ==
  IF current.kind = "empty" \/ current = text THEN text ELSE FileOf("corrupt", 0, 0)

\* log_search (lines 129-131) or get_stats (line 104) is called
StatsCall(w) ==
  /\ loggers[w].pc \in {"idle", "done"}
  /\ h_ops < MaxOps
  /\ \E op \in {"log_search", "get_stats"} :
       /\ loggers' = [loggers EXCEPT ![w] =
            [IdleLogger EXCEPT !.op = op, !.then = "open",
                               !.pc = IF op = "log_search" THEN "exists" ELSE "gs_open"]]
       /\ h_gets' = IF op = "get_stats" THEN h_gets + 1 ELSE h_gets
  /\ h_ops' = h_ops + 1
  /\ UNCHANGED << crawler, searches, cache, batches, analysis, stats_file, stats_lock,
                  h_initial, h_returned, h_io >>

\* line 23: if not os.path.exists(self.stats_file)
EnsureExists(w) ==
  /\ loggers[w].pc = "exists"
  /\ loggers' = [loggers EXCEPT ![w].pc =
                   IF stats_file.kind = "missing" THEN "create" ELSE loggers[w].then]
  /\ UNCHANGED << crawler, searches, cache, batches, analysis, stats_file, stats_lock,
                  h_ops, h_gets, h_initial, h_returned, h_io >>

\* line 30: open(self.stats_file, "w") creates or truncates the file
EnsureCreate(w) ==
  /\ loggers[w].pc = "create"
  /\ stats_file' = FileOf("empty", 0, 0)
  /\ loggers' = [loggers EXCEPT ![w].pc = "dump"]
  /\ UNCHANGED << crawler, searches, cache, batches, analysis, stats_lock,
                  h_ops, h_gets, h_initial, h_returned, h_io >>

\* line 31 and the end of the with block: the initial stats are written
EnsureDump(w) ==
  /\ loggers[w].pc = "dump"
  /\ stats_file' = Overlay(stats_file, initial_stats)
  /\ loggers' = [loggers EXCEPT ![w].pc = loggers[w].then]
  /\ UNCHANGED << crawler, searches, cache, batches, analysis, stats_lock,
                  h_ops, h_gets, h_initial, h_returned, h_io >>

\* line 95: if retry_count >= max_retries
GivesUp(retry_count) == retry_count >= MaxRetries

\* line 52: open(self.stats_file, "r+"); an OSError (always for a missing
\* file) counts an attempt (lines 93-100), the last one falls back to
\* get_stats
IncOpen(w) ==
  /\ loggers[w].pc = "open"
  /\ \/ /\ stats_file.kind # "missing"
        /\ loggers' = [loggers EXCEPT ![w].pc = "flock"]
        /\ h_io' = h_io
     \/ /\ loggers' = [loggers EXCEPT
             ![w].retry_count = @ + 1,
             ![w].then = "gs_open",
             ![w].pc = IF GivesUp(loggers[w].retry_count + 1) THEN "gs_open" ELSE "open"]
        /\ h_io' = h_io + 1
  /\ UNCHANGED << crawler, searches, cache, batches, analysis, stats_file, stats_lock,
                  h_ops, h_gets, h_initial, h_returned >>

\* line 54: fcntl.flock(f.fileno(), fcntl.LOCK_EX) waits for the lock
IncLock(w) ==
  /\ loggers[w].pc = "flock"
  /\ stats_lock = 0
  /\ stats_lock' = w
  /\ loggers' = [loggers EXCEPT ![w].pc = "read"]
  /\ UNCHANGED << crawler, searches, cache, batches, analysis, stats_file,
                  h_ops, h_gets, h_initial, h_returned, h_io >>

\* lines 56-82: read and parse, reset when empty or corrupt, count the search
IncRead(w) ==
  /\ loggers[w].pc = "read"
  /\ loggers' = [loggers EXCEPT
       ![w].pc = "write",
       ![w].stats = IF stats_file.kind = "json"
                    THEN FileOf("json", stats_file.total + 1, stats_file.dates + 1)
                    ELSE FileOf("json", 1, 1)]
  /\ UNCHANGED << crawler, searches, cache, batches, analysis, stats_file, stats_lock,
                  h_ops, h_gets, h_initial, h_returned, h_io >>

\* lines 85-91: seek(0), truncate, dump, flush, return stats; leaving the
\* with block closes the file, which releases the lock
IncWrite(w) ==
  /\ loggers[w].pc = "write"
  /\ stats_file' = loggers[w].stats
  /\ stats_lock' = 0
  /\ loggers' = [loggers EXCEPT ![w].pc = "done", ![w].wrote = TRUE,
                                ![w].result = Some(loggers[w].stats.total)]
  /\ h_returned' = Append(h_returned, loggers[w].stats.total)
  /\ UNCHANGED << crawler, searches, cache, batches, analysis,
                  h_ops, h_gets, h_initial, h_io >>

\* get_stats, lines 106-111: return the parsed file; FileNotFoundError and
\* JSONDecodeError call _ensure_stats_file and get_stats again, and the
\* interpreter raises RecursionError at its recursion limit
GsOpen(w) ==
  /\ loggers[w].pc = "gs_open"
  /\ IF stats_file.kind = "json"
     THEN /\ loggers' = [loggers EXCEPT ![w].pc = "done",
                                        ![w].result = Some(stats_file.total)]
          /\ h_returned' = IF loggers[w].op = "log_search"
                            THEN Append(h_returned, stats_file.total)
                            ELSE h_returned
     ELSE /\ IF loggers[w].depth >= MaxRecursion
             THEN loggers' = [loggers EXCEPT ![w].pc = "done", ![w].raised = TRUE]
             ELSE loggers' = [loggers EXCEPT ![w].pc = "exists", ![w].then = "gs_open",
                                             ![w].depth = @ + 1]
          /\ h_returned' = h_returned
  /\ UNCHANGED << crawler, searches, cache, batches, analysis, stats_file, stats_lock,
                  h_ops, h_gets, h_initial, h_io >>

InitStats ==
  /\ CrawlerIdle /\ SearchIdle /\ CacheIdle /\ BatchIdle /\ AnalysisIdle
  /\ stats_file \in InitialFiles
  /\ h_initial = stats_file
  /\ stats_lock = 0
  /\ loggers = [w \in Loggers |-> IdleLogger]
  /\ h_ops = 0 /\ h_gets = 0
  /\ h_returned = << >>
  /\ h_io = 0

NextStats ==
  \/ \E w \in Loggers : StatsCall(w)
  \/ \E w \in Loggers : EnsureExists(w)
  \/ \E w \in Loggers : EnsureCreate(w)
  \/ \E w \in Loggers : EnsureDump(w)
  \/ \E w \in Loggers : IncOpen(w)
  \/ \E w \in Loggers : IncLock(w)
  \/ \E w \in Loggers : IncRead(w)
  \/ \E w \in Loggers : IncWrite(w)
  \/ \E w \in Loggers : GsOpen(w)

SpecStats == InitStats /\ [][NextStats]_vars

\* ================================================================ claims
Tasks == {futures[i] : i \in 1..Len(futures)}
OriginsOf(source) == {it \in h_items : it[3] = source}

\* C1: concurrent add_to_crawl_queue calls never put the same normalized
\* source on the queue twice (test and insert act as one atomic step).
C1_NoDuplicateEnqueue == \A s \in Sources : h_enq[s] <= 1

\* C2: each distinct normalized source is dequeued by the dispatch loop
\* exactly once: never twice, and once the run has returned every enqueued
\* source has been dequeued.
C2_DequeuedExactlyOnce ==
  /\ \A s \in Sources : h_deq[s] <= 1
  /\ pc = "returned" => \A s \in visited_sources : h_deq[s] = 1

\* C3: with more than one worker, no source is processed (fetched and passed
\* to save_crawled_data) more than once in the run.
C3_ProcessedAtMostOnce ==
  max_workers > 1 => \A s \in Sources : h_fetch[s] <= 1 /\ h_store[s] <= 1

\* C4: with a depth limit >= 0, when the run has returned every source it
\* visited was visited exactly once.
C4_VisitedExactlyOnce ==
  (default_depth >= 0 /\ pc = "returned")
    => \A s \in visited_sources : h_fetch[s] = 1

\* C5: with unlimited depth, a source that is already in the visited set is
\* never put on the queue again.
C5_SeenNeverEnqueuedAgain ==
  [][default_depth = -1 =>
       \A s \in visited_sources : h_enq'[s] = h_enq[s]]_vars

\* C6: depth monotonicity: what start_crawling enqueues has depth 0 and origin
\* "initial"; an item with origin "initial" has depth 0; any other enqueued
\* item has depth d >= 1 and its origin was processed at depth d - 1; queued
\* and dequeued items are enqueued items, unchanged.
C6_DepthMonotonic ==
  /\ h_proc = {} => \A it \in h_items : it[3] = "initial"
  /\ \A it \in h_items :
       IF it[3] = "initial" THEN it[2] = 0
       ELSE it[2] >= 1 /\ << it[3], it[2] - 1 >> \in h_proc
  /\ \A k \in 1..Len(crawl_queue) : crawl_queue[k] \in h_items
  /\ \A t \in Tasks : << t.source, t.depth, t.origin >> \in h_items

C6_Witness ==
  \E t \in Tasks : t.pc = "done" /\ t.depth = 2 /\ t.origin \in WebSources

\* the depths of everything enqueued, queued, dequeued or processed
DepthsSeen ==
  {it[2] : it \in h_items} \cup {p[2] : p \in h_proc}
    \cup {t.depth : t \in Tasks}
    \cup {crawl_queue[k][2] : k \in 1..Len(crawl_queue)}

\* C7 as stated: whenever the depth limit is not -1, nothing deeper than the
\* limit is ever enqueued, dequeued or processed.
C7_DepthLimit_Original ==
  (pc # "start_crawling" /\ default_depth # -1)
    => \A d \in DepthsSeen : d <= default_depth

\* C7 amended: whenever the depth limit is >= 0, nothing deeper than the
\* limit is ever enqueued, dequeued or processed.
C7_DepthLimit ==
  (pc # "start_crawling" /\ default_depth >= 0)
    => \A d \in DepthsSeen : d <= default_depth

\* an item at the limit was fetched with content and links, and discovered none
C7_Witness ==
  /\ default_depth = 2
  /\ \E t \in Tasks :
       /\ t.pc = "done" /\ t.depth = default_depth /\ t.fetched = "ok"
       /\ extract_links(pages[t.source]) # << >>
       /\ ~t.discovery

\* the conditions C8 names, for a task
C8_Conditions(t) ==
  /\ t.fetched = "ok"
  /\ IsWebSource(t.source)
  /\ (default_depth = -1 \/ t.depth < default_depth)
  /\ (user_topic /\ t.score # None) => Val(t.score) >= TopicThreshold

\* C8: a task discovers links only when its fetch succeeded, its source is a
\* web source, depth budget remains and its topic score, if any, is not below
\* the threshold; otherwise it enqueues nothing; a score equal to the
\* threshold allows discovery.
C8_DiscoveryOnlyWhen ==
  \A t \in Tasks :
    /\ t.discovery => C8_Conditions(t)
    /\ ~C8_Conditions(t) => (t.links = << >> /\ t.added = 0)
    /\ (C8_Conditions(t) /\ t.score = Some(TopicThreshold)) => t.discovery

C8_Witness ==
  \E t \in Tasks :
    /\ user_topic /\ t.score = Some(TopicThreshold)
    /\ t.discovery /\ t.added > 0 /\ t.pc = "done"

\* C9: a source stored with a topic score below the threshold is passed to
\* save_crawled_data exactly once in the run and none of its links is enqueued.
C9_PrunedStoredOnce ==
  \A r \in h_stored :
    (user_topic /\ r.score # None /\ Val(r.score) < TopicThreshold)
      => (h_store[r.source] = 1 /\ OriginsOf(r.source) = {})

\* C10: a source whose fetch returned an error gets exactly one
\* save_crawled_data call in the run, with empty text and the error recorded,
\* and enqueues no links.
C10_FetchErrorStoredOnce ==
  \A r \in h_stored :
    r.error => (h_store[r.source] = 1 /\ ~r.text /\ OriginsOf(r.source) = {})

C12_BatchBoundary ==
  /\ pc \in {"start_crawling", "while", "returned"} => \A t \in Tasks : t.pc = "done"
  /\ pc # "ValueError" => Len(futures) <= max_workers * BatchFactor
  /\ pc = "for" => Len(futures) + batch_left <= max_workers * BatchFactor

\* a batch of two tasks, one of them failed, is complete and a next batch waits
C12_Witness ==
  /\ pc = "while" /\ Len(futures) >= 2 /\ crawl_queue # << >>
  /\ \E t \in Tasks : t.fetched = "error"
  /\ \E t \in Tasks : t.added > 0

\* C13: a task whose processing raised an exception has completed with no
\* link handed to add_to_crawl_queue and none enqueued; the run is never
\* stuck before start_crawling returns, and when it returns the queue is
\* empty, every task has completed and everything enqueued was dequeued.
C13_ExceptionCaughtPerItem ==
  /\ \A t \in Tasks :
       t.raised # "no" =>
         (t.pc = "done" /\ t.passed = << >> /\ t.links = << >> /\ t.added = 0)
  /\ pc \notin {"returned", "ValueError"} => ENABLED Next
  /\ pc = "returned" =>
       /\ crawl_queue = << >>
       /\ \A t \in Tasks : t.pc = "done"
       /\ \A s \in Sources : h_deq[s] = h_enq[s]

\* the task of hA raised before its save; hB of the same batch discovered hD,
\* which a following batch processed, and the run has returned
C13_Witness ==
  /\ pc = "returned" /\ pages = GraphShared
  /\ h_raise["hA"] > 0 /\ h_store["hA"] = 0
  /\ h_store["hB"] > 0 /\ h_store["hD"] > 0

\* C14: the run returns exactly at a loop test that finds the queue empty:
\* once start_crawling has returned the queue is empty, no task is in flight,
\* every source in the visited set was dequeued as often as it was enqueued
\* (at least once) and every enqueued item was processed by a task that has
\* finished; a loop test with an empty queue returns.
C14_ReturnsWhenDrained ==
  /\ pc = "returned" =>
       /\ crawl_queue = << >>
       /\ \A t \in Tasks : t.pc = "done"
       /\ \A s \in visited_sources : h_enq[s] >= 1 /\ h_deq[s] = h_enq[s]
       /\ \A it \in h_items : << it[1], it[2] >> \in h_proc
  /\ (pc = "while" /\ crawl_queue = << >>) => ENABLED (LoopTest /\ pc' = "returned")
  /\ (pc = "while" /\ crawl_queue # << >>) => ~ENABLED (LoopTest /\ pc' = "returned")

\* a run over the diamond has returned after visiting all four pages, one of
\* them enqueued twice
C14_Witness ==
  /\ pc = "returned" /\ visited_sources = {"hA", "hB", "hC", "hD"}
  /\ \E s \in Sources : h_enq[s] = 2

\* the links the Link Extractor returns for the page of a task
LinksOf(t) == extract_links(pages[t.source])

\* C15: with link_relevance_threshold <= 0.8, a task that reaches link
\* discovery never calls score_link_relevance and hands every extracted
\* link, in order, to add_to_crawl_queue.
C15_FastModeKeepsAll ==
  \A t \in Tasks :
    (link_relevance_threshold <= AdvancedCut /\ t.discovery) =>
      /\ t.link_calls = 0
      /\ t.raised = "no"
      /\ t.passed = [k \in 1..Len(LinksOf(t)) |-> LinksOf(t)[k].url]

\* the threshold is exactly 0.8, the analyzer is available, and a page with
\* anchor-bearing links had all its links handed on
C15_Witness ==
  /\ link_relevance_threshold = AdvancedCut /\ is_available
  /\ \E t \in Tasks :
       /\ t.discovery /\ t.pc = "done" /\ Len(t.passed) = 3
       /\ \E k \in 1..Len(LinksOf(t)) : LinksOf(t)[k].anchor

\* the links C16 says are enqueued: no anchor text, or a score >= the threshold
C16_KeptIdx(t) ==
  {k \in 1..Len(LinksOf(t)) :
     ~LinksOf(t)[k].anchor \/ t.relevance[k] >= link_relevance_threshold}

C16_Filtered(t) ==
  /\ t.link_calls = Cardinality({k \in 1..Len(LinksOf(t)) : LinksOf(t)[k].anchor})
  /\ Len(t.passed) = Cardinality(C16_KeptIdx(t))
  /\ {t.passed[j] : j \in 1..Len(t.passed)}
       = {LinksOf(t)[k].url : k \in C16_KeptIdx(t)}

C17_ProcessedIsSkipped ==
  \A t \in Tasks :
    /\ t.skipped =>
         /\ t.pc = "done" /\ t.fetched = "not yet" /\ t.stores = 0
         /\ t.score = None /\ t.link_calls = 0 /\ t.raised = "no"
         /\ ~t.discovery /\ t.passed = << >> /\ t.links = << >> /\ t.added = 0
    /\ (t.pc = "fetch" /\ max_workers = 1) => ~is_source_processed(t.source)
    /\ (t.pc = "done" /\ t.fetched = "not yet") => t.skipped

\* a source enqueued twice was saved by one task and skipped by a later one
C17_Witness ==
  \E t \in Tasks :
    /\ t.skipped /\ t.pc = "done"
    /\ h_deq[t.source] = 2 /\ h_store[t.source] = 1 /\ h_fetch[t.source] = 1

\* C18: in a later run on the same output folder, every source with a record
\* written by an earlier run is reported by is_source_processed, and a task
\* for such a source is skipped.
C18_LedgerDurable ==
  /\ \A f \in files : f.session < session_name => is_source_processed(f.source)
  /\ \A t \in Tasks :
       (t.pc # "pending" /\ \E f \in files : f.source = t.source /\ f.session < session_name)
         => t.skipped

\* C19: the output folder never holds two different records written in this
\* run for one source, and a save for a source already saved in this run
\* leaves the folder as it was (a no-op, or an overwrite with the same data).
C19_StoreIdempotent ==
  [][/\ \A f1, f2 \in files' :
          (f1.source = f2.source /\ f1.session = session_name
             /\ f2.session = session_name) => f1 = f2
     /\ \A s \in Sources :
          (h_store[s] >= 1 /\ h_store'[s] = h_store[s] + 1) => files' = files]_vars

\* C20: when a topic is set but there is no topic embedding (analyzer absent
\* or unavailable, or get_embedding returned None), no task computes a topic
\* score, every record is saved with score None, no topic scoring raises, a
\* saved task discovers links exactly when its fetch succeeded on a web
\* source with depth budget left, as without a topic, and the run is never
\* stuck before it returns.
C20_ScoringFailsOpen ==
  (user_topic /\ ~user_topic_embedding) =>
    /\ \A r \in h_stored : r.score = None
    /\ \A s \in Sources : h_raise[s] = 0
    /\ \A t \in Tasks :
         /\ t.score = None
         /\ t.stores = 1 =>
              (t.discovery <=>
                 (t.fetched = "ok" /\ IsWebSource(t.source)
                    /\ (default_depth = -1 \/ t.depth < default_depth)))
    /\ pc \notin {"returned", "ValueError"} => ENABLED Next

\* the analyzer is available but returned no topic embedding; a page was
\* saved without a score and its links were enqueued
C20_Witness ==
  /\ user_topic /\ ~user_topic_embedding /\ semantic_analyzer = "available"
  /\ \E t \in Tasks : t.pc = "done" /\ t.stores = 1 /\ t.score = None /\ t.added > 0
  /\ \E r \in h_stored : r.text /\ r.score = None

\* the valid sources of a list, normalized
ValidOf(sources) ==
  {Normalize(sources[k]) :
     k \in {j \in 1..Len(sources) : sources[j] \notin InvalidSources}}

\* C21: a source that fails normalization is never in the visited set, in
\* the queue or among the enqueued items; the items start_crawling enqueued
\* are exactly the valid sources of its list, each in the visited set; and
\* start_crawling is never prevented from completing.
C21_InvalidSourceDropped ==
  /\ visited_sources \cap InvalidSources = {}
  /\ \A it \in h_items : it[1] \notin InvalidSources
  /\ \A k \in 1..Len(crawl_queue) : crawl_queue[k][1] \notin InvalidSources
  /\ pc = "start_crawling" => ENABLED start_crawling
  /\ pc \notin {"start_crawling", "ValueError"} =>
       \E initial_sources \in InitialLists :
         /\ {it \in h_items : it[3] = "initial"}
              = {<< n, 0, "initial" >> : n \in ValidOf(initial_sources)}
         /\ ValidOf(initial_sources) \subseteq visited_sources

\* the list whose first source is invalid was given: the file after it was
\* enqueued, processed and saved, and the run has returned
C21_Witness ==
  /\ pc = "returned"
  /\ visited_sources = {"/cwd/doc.txt"}
  /\ h_enq["/cwd/doc.txt"] = 1 /\ h_store["/cwd/doc.txt"] = 1

\* C22: a crawler constructed with max_workers <= 0 has raised ValueError:
\* it has no queue or visited entries, no task, and no enqueue, dequeue,
\* fetch or save ever happens for it.
C22_ConfigurationError ==
  max_workers <= 0 =>
    /\ pc = "ValueError"
    /\ crawl_queue = << >> /\ visited_sources = {}
    /\ futures = << >>
    /\ h_enq = ZeroCount /\ h_deq = ZeroCount
    /\ h_fetch = ZeroCount /\ h_store = ZeroCount
    /\ h_items = {} /\ h_proc = {} /\ files = {}
    /\ ~ENABLED Next

C22_Witness == max_workers = 0 /\ pc = "ValueError"

\* the tasks a pool thread is executing, and the tasks not yet finished
Executing == {i \in 1..Len(futures) : futures[i].pc \notin {"pending", "done"}}
Unfinished == {i \in 1..Len(futures) : futures[i].pc # "done"}

\* C23: a round computes min(2 * max_workers, queue size) at its start and
\* drains exactly that many items (the queue never runs out before), so at
\* most 2 * max_workers tasks are unfinished and at most max_workers tasks
\* execute at any moment.
C23_BatchSize ==
  pc # "ValueError" =>
    /\ Cardinality(Executing) <= max_workers
    /\ Cardinality(Unfinished) <= 2 * max_workers
    /\ (pc = "while" /\ crawl_queue # << >>) =>
         ENABLED (LoopTest /\ futures' = << >>
                    /\ batch_left' = (IF Len(crawl_queue) < 2 * max_workers
                                      THEN Len(crawl_queue) ELSE 2 * max_workers))
    /\ pc = "for" =>
         /\ batch_left <= Len(crawl_queue)
         /\ Len(futures) + batch_left >= 1
         /\ Len(futures) + batch_left <= 2 * max_workers
    /\ pc = "as_completed" => (batch_left = 0 /\ Len(futures) >= 1)

\* a round of one worker took two of three queued items, and one of its
\* tasks is executing while the other waits
C23_Witness ==
  /\ max_workers = 1 /\ pc = "as_completed"
  /\ Len(futures) = 2 /\ crawl_queue # << >>
  /\ Cardinality(Executing) = 1 /\ Cardinality(Unfinished) = 2

\* the number of queue entries for a source
QueuedCount(q, s) == Cardinality({k \in 1..Len(q) : q[k][1] = s})

IsPrefix(p, q) == Len(p) <= Len(q) /\ SubSeq(q, 1, Len(p)) = p

\* C24: every step either leaves the queued items in place, possibly with
\* new items behind them, or is the dispatch thread's get in its for loop,
\* which submits the head; after every step each newly enqueued item is in
\* the queue, every source was enqueued as often as it was dequeued or is
\* still queued, and every visited source was enqueued.
C24_OnlyDispatcherDequeues ==
  [][/\ \/ IsPrefix(crawl_queue, crawl_queue')
        \/ /\ pc = "for" /\ crawl_queue # << >>
           /\ crawl_queue' = Tail(crawl_queue)
           /\ futures' = Append(futures, NewTask(Head(crawl_queue)))
     /\ \A it \in h_items' \ h_items :
          \E k \in 1..Len(crawl_queue') : crawl_queue'[k] = it
     /\ \A s \in Sources :
          h_enq'[s] = h_deq'[s] + QueuedCount(crawl_queue', s)
     /\ \A s \in visited_sources' : h_enq'[s] >= 1]_vars

\* two tasks of one batch have each enqueued a link and both items are queued
C24_Witness ==
  /\ pc = "as_completed" /\ Len(crawl_queue) >= 2
  /\ \E i, j \in 1..Len(futures) :
       /\ i # j /\ futures[i].added > 0 /\ futures[j].added > 0
       /\ \E k \in 1..Len(crawl_queue) : crawl_queue[k][3] = futures[i].source
       /\ \E k \in 1..Len(crawl_queue) : crawl_queue[k][3] = futures[j].source

InProgress(c) == calls[c].pc \notin {"idle", "done"}

\* C25 as stated: once a call has returned or raised, _active_requests holds
\* no entry for its request
C25_ActiveRequestsCleanedUp_Original ==
  \A c \in Callers :
    calls[c].pc = "done" => active_requests[KeyOf(c)] = None

\* C25: once a call has returned or raised and no other call for the same
\* request is in progress, _active_requests holds no entry for that request;
\* when no call is in progress, _active_requests is empty.
C25_ActiveRequestsCleanedUp ==
  /\ \A c \in Callers :
       (/\ calls[c].pc = "done"
        /\ \A d \in Callers \ {c} : InProgress(d) => KeyOf(d) # KeyOf(c))
         => active_requests[KeyOf(c)] = None
  /\ (\A c \in Callers : ~InProgress(c)) => active_requests = NoRequests

\* two searches are complete, one whose engines both raised and one that
\* returned results, and nothing is in progress
C25_Witness ==
  /\ h_calls = MaxSearches
  /\ \A c \in Callers : calls[c].pc = "done"
  /\ \E c \in Callers : calls[c].brave = "raised" /\ calls[c].tavily = "raised"
  /\ \E c \in Callers : calls[c].result \notin {None, Some(<< >>)}
  /\ active_requests = NoRequests

\* the age of the last write of a key
Age(k) == now - Val(h_written[k])[2]

\* the key, the value and the write seen by the lookup just made
GotKey == h_got[1]
GotValue == h_got[2]
GotWritten == Val(h_got[3])[1]
GotAge == now - Val(h_got[3])[2]

C28_BatchAccounting ==
  batch.pc = "returned" =>
    /\ Val(response).total_queries = Len(queries)
    /\ Val(response).successful + Val(response).failed = Len(queries)
    /\ Cardinality(DOMAIN Val(response).results) = Len(queries)

\* C29: with link_relevance_threshold > 0.8 and no available analyzer (absent,
\* or is_available() false), a task that reaches link discovery never calls
\* score_link_relevance and hands every extracted link, in order, to
\* add_to_crawl_queue.
C29_NoScorerMeansFastMode ==
  \A t \in Tasks :
    (link_relevance_threshold > AdvancedCut /\ semantic_analyzer # "available"
       /\ t.discovery) =>
      /\ t.link_calls = 0
      /\ t.raised = "no"
      /\ t.passed = [k \in 1..Len(LinksOf(t)) |-> LinksOf(t)[k].url]

\* the threshold is 0.9, the analyzer reports itself unavailable, and a page
\* with anchor-bearing links had all its links handed on
C29_Witness ==
  /\ link_relevance_threshold > AdvancedCut /\ semantic_analyzer = "unavailable"
  /\ \E t \in Tasks :
       /\ t.discovery /\ t.pc = "done" /\ Len(t.passed) = 3 /\ t.link_calls = 0
       /\ \E k \in 1..Len(LinksOf(t)) : LinksOf(t)[k].anchor

\* C30: while a round still has items to take the queue is non-empty, so the
\* get of the for loop finds an item in every interleaving with the workers;
\* the for loop always has a step, which takes one item and submits it, or
\* ends the round when the round is complete or the queue is empty.
C30_DrainNeverBlocks ==
  /\ (pc = "for" /\ batch_left > 0) => crawl_queue # << >>
  /\ pc = "for" => ENABLED Submit
  /\ (pc = "for" /\ batch_left > 0 /\ crawl_queue # << >>) =>
       ENABLED (Submit /\ crawl_queue' = Tail(crawl_queue)
                       /\ Len(futures') = Len(futures) + 1)
  /\ (pc = "for" /\ crawl_queue = << >>) =>
       ENABLED (Submit /\ pc' = "as_completed" /\ UNCHANGED << futures, crawl_queue >>)

\* the dispatch thread is between two gets of a round while a task of the
\* round has already enqueued a link
C30_Witness ==
  /\ pc = "for" /\ batch_left > 0 /\ crawl_queue # << >>
  /\ \E i \in 1..Len(futures) : futures[i].added > 0

\* the step is the fetch-to-filter part of task i
ActsOn(i) ==
  /\ i <= Len(futures) /\ i <= Len(futures')
  /\ futures[i].pc = "fetch" /\ futures'[i].pc # "fetch"

\* C31: no step removes a processed mark; a stored record changes only in a
\* step of a task for the record's own source; a task whose topic scoring
\* raises changes no record and no mark; a task whose fetch fails or whose
\* link filtering raises leaves every record of another source as it was,
\* and the record and mark of its own completed save are in place.
C31_FailuresKeepRecords ==
  [][/\ processed_sources_cache \subseteq processed_sources_cache'
     /\ \A f \in files :
          f \notin files' =>
            \E i \in 1..Len(futures) : ActsOn(i) /\ futures[i].source = f.source
     /\ \A i \in 1..Len(futures) :
          ActsOn(i) =>
            /\ futures'[i].raised = "topic" =>
                 (files' = files /\ processed_sources_cache' = processed_sources_cache)
            /\ (futures'[i].fetched = "error" \/ futures'[i].raised = "links") =>
                 /\ \A f \in files : f.source # futures[i].source => f \in files'
                 /\ futures'[i].stores = 1 =>
                      /\ futures[i].source \in processed_sources_cache'
                      /\ \E f \in files' : f.source = futures[i].source]_vars

\* one task of a batch saved its page and then its link filtering raised,
\* another task of the batch had a failed fetch, and both records are stored
C31_Witness ==
  \E t, u \in Tasks :
    /\ t.raised = "links" /\ t.stores = 1
    /\ u.fetched = "error" /\ u.pc = "done" /\ u.source # t.source
    /\ \E f \in files : f.source = t.source /\ ~f.error
    /\ \E f \in files : f.source = u.source /\ f.error

\* the sources a page links to, as add_to_crawl_queue names them
LinkedFrom(source) ==
  IF IsWebSource(source)
  THEN {Normalize(l.url) : l \in Range(extract_links(pages[source]))}
  ELSE {}

RECURSIVE Within(_, _)
\* the sources reachable from a set of sources in at most hops links
Within(from, hops) ==
  IF hops <= 0 THEN from
  ELSE Within(from \cup UNION {LinkedFrom(x) : x \in from}, hops - 1)

InitialOnes == {it[1] : it \in {x \in h_items : x[3] = "initial"}}

\* every page stored so far was fetched with its text and nothing raised
AllFetched ==
  /\ \A r \in h_stored : r.text /\ ~r.error
  /\ \A x \in Sources : h_raise[x] = 0

\* C32: when the run has returned with fast link mode, no topic, every fetch
\* succeeding and a depth limit of at least 0, every source reachable from an
\* initial source within that many links has been processed.
C32_ReachableProcessed ==
  (/\ pc = "returned" /\ default_depth >= 0 /\ ~user_topic
   /\ ~AdvancedMode /\ AllFetched)
    => \A x \in Within(InitialOnes, default_depth) : \E q \in h_proc : q[1] = x

\* C33: a call that found a request with its query and max_results in
\* progress has queried no engine, has not raised, and has returned the list
\* that the request in progress returned.
C33_DuplicateSharesResult ==
  \A c, d \in Callers :
    (/\ c # d /\ KeyOf(c) = KeyOf(d)
     /\ calls[c].pc = "done" /\ calls[c].duplicate
     /\ calls[d].pc = "done" /\ ~calls[d].duplicate)
      => /\ calls[c].brave = "off" /\ calls[c].tavily = "off"
         /\ ~calls[c].raised
         /\ calls[c].result = calls[d].result

\* no url occurs twice in the list
NoRepeat(results) ==
  \A j, k \in 1..Len(results) : results[j] = results[k] => j = k

\* C34: a call that went to the engines returns at most max_results entries,
\* no two of them with the same url, and has queried Tavily only when Brave
\* contributed fewer than max_results results.
C34_CombinedDeduplicated ==
  \A c \in Callers :
    (calls[c].pc \in {"finally", "del", "done"} /\ ~calls[c].duplicate
       /\ calls[c].result # None) =>
      /\ Len(Val(calls[c].result)) <= calls[c].max_results
      /\ NoRepeat(Val(calls[c].result))
      /\ calls[c].tavily # "off" => calls[c].from_brave < calls[c].max_results

\* the two parts of C34 that hold for every pair of responses
C34_BoundedAndFallback ==
  \A c \in Callers :
    (calls[c].pc \in {"finally", "del", "done"} /\ ~calls[c].duplicate
       /\ calls[c].result # None) =>
      /\ Len(Val(calls[c].result)) <= calls[c].max_results
      /\ calls[c].tavily # "off" => calls[c].from_brave < calls[c].max_results

\* C35: with a cache directory, the number of cache files after every
\* _cache_result call is at most cache_max_files, for every limit >= 1.
C35_CacheBounded ==
  cache_dir # "" => Cardinality(Present(cache_files)) <= cache_max_files

\* C36: the embedding cache never holds more than embedding_cache_max_size
\* entries, also with several threads inside get_embedding; an eviction
\* removes the oldest inserted entry; and no call raises or gives up its
\* embedding because of an eviction.
C36_EmbeddingCacheBounded ==
  /\ Len(embedding_cache) <= EmbeddingCacheMaxSize
  /\ \A w \in Embedders :
       /\ embeds[w].evicted \in {"none", "oldest"}
       /\ ~embeds[w].raised

\* every call begun has returned or raised
StatsQuiet == \A w \in Loggers : loggers[w].pc \in {"idle", "done"}

\* C37: when the log_search calls, each with its own SearchStats on the same
\* file (missing or holding consistent stats at the start), have all ended
\* and no OSError occurred, the file holds total_searches = the initial total
\* + the number of calls, the calls returned pairwise different counts, and
\* the sum of searches_by_date is total_searches.
C37_ConcurrentCountsExact ==
  (/\ StatsQuiet /\ h_ops > 0 /\ h_gets = 0 /\ h_io = 0
   /\ h_initial.kind \in {"missing", "json"})
    => /\ stats_file.kind = "json"
       /\ Len(h_returned) = h_ops
       /\ stats_file.total = h_initial.total + h_ops
       /\ NoRepeat(h_returned)
       /\ stats_file.dates = stats_file.total

\* C38: a call that has ended returned a record and did not raise, for every
\* state of the file; a call that is running has a next step unless it waits
\* for the lock; increment_search_count counts at most 3 failed attempts, and
\* after the third it has not written the file.
C38_StatsAlwaysReturn ==
  \A w \in Loggers :
    /\ loggers[w].pc = "done" => (~loggers[w].raised /\ loggers[w].result # None)
    /\ loggers[w].pc \notin {"idle", "done", "flock"} => ENABLED NextStats
    /\ loggers[w].retry_count <= MaxRetries
    /\ GivesUp(loggers[w].retry_count) => ~loggers[w].wrote

====
